---- MODULE Spec2Model ----
(***************************************************************************)
(* Wiring core of VHDLViz (src/wiring.py): classification of port-map      *)
(* actuals, aggregation of endpoints into nets, node and edge emission and  *)
(* bundle indexing, as a state machine over one design unit.                *)
(*                                                                          *)
(* Python strings are sequences of one-character strings, so that strip,    *)
(* lower, startswith, index and slicing are computed and not assumed.       *)
(***************************************************************************)
EXTENDS Integers, Sequences, FiniteSets, TLC

VARIABLES
    fi,              \* the FileInfo given to build_wiring / _classify_actual
    entity_port_db,  \* entity or component name -> (port name -> direction)
    pc,              \* position inside build_wiring (or the classifier run)
    nets,            \* insertion-ordered dict (kind, base) -> eps
    nodes,           \* list of node dicts
    edges,           \* list of edge dicts
    netIdx,          \* how many nets the edge loop has gone through
    actual,          \* argument of a stand-alone _classify_actual call
    cls              \* its result

vars == <<fi, entity_port_db, pc, nets, nodes, edges, netIdx, actual, cls>>

\* Python's None; no text is equal to it.
None == <<"<None>">>

----------------------------------------------------------------------------
(* str methods                                                              *)

White == {" ", "\t", "\n"}

UpperCase == <<"A","B","C","D","E","F","G","H","I","J","K","L","M",
               "N","O","P","Q","R","S","T","U","V","W","X","Y","Z">>

LowerCase == <<"a","b","c","d","e","f","g","h","i","j","k","l","m",
               "n","o","p","q","r","s","t","u","v","w","x","y","z">>

Digits == <<"0","1","2","3","4","5","6","7","8","9">>

Range(s) == {s[i] : i \in DOMAIN s}

\* upper-case letter -> lower-case letter
LowerMap == [c \in Range(UpperCase) |-> LowerCase[CHOOSE i \in DOMAIN UpperCase : UpperCase[i] = c]]

LowerCh(c) == IF c \in DOMAIN LowerMap THEN LowerMap[c] ELSE c

\* str.lower()
Lower(s) == [i \in DOMAIN s |-> LowerCh(s[i])]

\* s[i:j] with 0-based i (inclusive) and j (exclusive), 0 <= i, j <= len(s)
Slice(s, i, j) == IF j <= i THEN <<>> ELSE SubSeq(s, i + 1, j)

RECURSIVE LStrip(_)
LStrip(s) == IF s # <<>> /\ s[1] \in White THEN LStrip(Tail(s)) ELSE s

RECURSIVE RStrip(_)
RStrip(s) ==
    IF s # <<>> /\ s[Len(s)] \in White THEN RStrip(SubSeq(s, 1, Len(s) - 1)) ELSE s

\* str.strip()
Strip(s) == RStrip(LStrip(s))

\* str.startswith(p)
StartsWith(s, p) == Len(s) >= Len(p) /\ SubSeq(s, 1, Len(p)) = p

\* str.endswith(p)
EndsWith(s, p) == Len(s) >= Len(p) /\ SubSeq(s, Len(s) - Len(p) + 1, Len(s)) = p

\* c in s
Contains(s, c) == c \in Range(s)

\* s.index(c), 0-based, for a character that occurs in s
IndexOf(s, c) == (CHOOSE i \in DOMAIN s : s[i] = c /\ \A j \in 1..(i - 1) : s[j] # c) - 1

IdentStart == Range(UpperCase) \cup Range(LowerCase) \cup {"_"}

IdentChars == IdentStart \cup Range(Digits)

\* str.isidentifier() on the ASCII alphabet
IsIdentifier(s) ==
    /\ s # <<>>
    /\ s[1] \in IdentStart
    /\ \A i \in DOMAIN s : s[i] \in IdentChars

\* x or y, on texts and None
OrElse(x, y) == IF x = <<>> \/ x = None THEN y ELSE x

RECURSIVE Decimal(_)
\* str(n) for n >= 0
Decimal(n) == IF n < 10 THEN <<Digits[n + 1]>> ELSE Decimal(n \div 10) \o <<Digits[(n % 10) + 1]>>

----------------------------------------------------------------------------
(* _strip_outer_parens                                                      *)

RECURSIVE ParenScan(_, _, _)
\* the for loop of lines 8-12 from position i with the depth so far:
\* -1 when the depth went negative (ok = False), the final depth otherwise
ParenScan(t, i, depth) ==
    IF i > Len(t) THEN depth
    ELSE IF t[i] = "(" THEN ParenScan(t, i + 1, depth + 1)
    ELSE IF t[i] = ")" THEN
        IF depth - 1 < 0 THEN -1 ELSE ParenScan(t, i + 1, depth - 1)
    ELSE ParenScan(t, i + 1, depth)

RECURSIVE StripLoop(_)
\* the while loop of lines 6-14
StripLoop(t) ==
    IF StartsWith(t, <<"(">>) /\ EndsWith(t, <<")">>)
    THEN IF ParenScan(t, 1, 0) = 0
         THEN StripLoop(Strip(Slice(t, 1, Len(t) - 1)))
         ELSE t
    ELSE t

\* the loop body run at most once: one pair of outer parentheses removed
StripOuterParensOnce(s) ==
    LET t == Strip(s)
    IN  IF StartsWith(t, <<"(">>) /\ EndsWith(t, <<")">>) /\ ParenScan(t, 1, 0) = 0
        THEN Strip(Slice(t, 1, Len(t) - 1))
        ELSE t

StripOuterParens(s) == StripLoop(Strip(s))

----------------------------------------------------------------------------
(* _split_base_slice: <<base, slice>>                                       *)

SplitBaseSlice(a0) ==
    LET a == Strip(a0) IN
    IF Contains(a, "(") /\ EndsWith(a, <<")">>)
    THEN LET k    == IndexOf(a, "(")
             base == Strip(Slice(a, 0, k))
             sl   == Strip(Slice(a, k + 1, Len(a) - 1))
         IN  IF IsIdentifier(base) THEN <<base, sl>> ELSE <<a, None>>
    ELSE <<a, None>>

----------------------------------------------------------------------------
(* _classify_actual                                                         *)

SigNames(f) == {f.signals[i].name : i \in DOMAIN f.signals}

EportNames(f) == {f.ports[i].name : i \in DOMAIN f.ports}

\* line 35 without the x" prefix test
IsLiteralNoHex(al) ==
    \/ al \in {<<"0">>, <<"1">>}
    \/ StartsWith(al, <<"'">>)
    \/ StartsWith(al, <<"\"">>)
    \/ StartsWith(al, <<"b", "\"">>)

\* line 35
IsLiteral(al) ==
    \/ al \in {<<"0">>, <<"1">>}
    \/ StartsWith(al, <<"'">>)
    \/ StartsWith(al, <<"\"">>)
    \/ StartsWith(al, <<"x", "\"">>)
    \/ StartsWith(al, <<"b", "\"">>)

\* _classify_actual comparing the text itself, not its lower-case form, with 'open'
ClassifyActualCaseSensitive(act, f) ==
    LET a    == StripOuterParens(act)
        al   == Lower(a)
        base == SplitBaseSlice(a)[1]
    IN  IF a = <<"o","p","e","n">> THEN [kind |-> "open", label |-> a, base |-> None]
        ELSE IF IsLiteral(al) THEN [kind |-> "const", label |-> a, base |-> None]
        ELSE IF base \in SigNames(f) THEN [kind |-> "signal", label |-> a, base |-> base]
        ELSE IF base \in EportNames(f) THEN [kind |-> "eport", label |-> a, base |-> base]
        ELSE [kind |-> "expr", label |-> a, base |-> None]

ClassifyActual(act, f) ==
    LET a    == StripOuterParens(act)
        al   == Lower(a)
        base == SplitBaseSlice(a)[1]
    IN  IF al = <<"o","p","e","n">> THEN [kind |-> "open", label |-> a, base |-> None]
        ELSE IF IsLiteral(al) THEN [kind |-> "const", label |-> a, base |-> None]
        ELSE IF base \in SigNames(f) THEN [kind |-> "signal", label |-> a, base |-> base]
        ELSE IF base \in EportNames(f) THEN [kind |-> "eport", label |-> a, base |-> base]
        ELSE [kind |-> "expr", label |-> a, base |-> None]

----------------------------------------------------------------------------
(* build_wiring: direction tables                                           *)

\* inst.entity_ref or inst.component_name
TargetOf(inst) == OrElse(inst.entity_ref, inst.component_name)

\* lines 56-59 storing the table's directions as written, without lower()
DirsOfInstanceAsWritten(inst, db) ==
    LET ent == TargetOf(inst) IN
    IF ent # None /\ ent # <<>> /\ ent \in DOMAIN db
    THEN [n \in DOMAIN db[ent] |-> db[ent][n]]
    ELSE <<>>

\* the dict stored under inst.label by lines 56-59
DirsOfInstance(inst, db) ==
    LET ent == TargetOf(inst) IN
    IF ent # None /\ ent # <<>> /\ ent \in DOMAIN db
    THEN [n \in DOMAIN db[ent] |-> Lower(db[ent][n])]
    ELSE <<>>

\* inst_port_dirs[il]: a later instance with the same label overwrites
InstPortDirs(f, db, il) ==
    LET idx == {i \in DOMAIN f.instances : f.instances[i].label = il} IN
    IF idx = {} THEN <<>>
    ELSE DirsOfInstance(f.instances[CHOOSE i \in idx : \A j \in idx : j <= i], db)

\* inst_port_dirs.get(il, {}).get(fport, dflt)
PinDir(f, db, il, fport, dflt) ==
    LET d == InstPortDirs(f, db, il) IN
    IF fport \in DOMAIN d THEN d[fport] ELSE dflt

\* eport_dirs.get(pname, dflt): a later port with the same name overwrites
EportDir(f, pname, dflt) ==
    LET idx == {i \in DOMAIN f.ports : f.ports[i].name = pname} IN
    IF idx = {} THEN dflt
    ELSE Lower(f.ports[CHOOSE i \in idx : \A j \in idx : j <= i].direction)

S_in     == <<"i","n">>
S_out    == <<"o","u","t">>
S_buffer == <<"b","u","f","f","e","r">>
S_inout  == <<"i","n","o","u","t">>

----------------------------------------------------------------------------
(* build_wiring: nets                                                       *)

InstEp(il, formal) == [tag |-> "inst", a |-> il, b |-> formal]
EntityEp(pname)    == [tag |-> "entity", a |-> pname, b |-> <<>>]
ExprEp(text)       == [tag |-> "expr", a |-> text, b |-> <<>>]

HasNet(ns, kind, base) == \E i \in DOMAIN ns : ns[i].kind = kind /\ ns[i].base = base

NetAt(ns, kind, base) == CHOOSE i \in DOMAIN ns : ns[i].kind = kind /\ ns[i].base = base

\* add_ep
AddEp(ns, kind, base, ep, label) ==
    IF HasNet(ns, kind, base)
    THEN [ns EXCEPT ![NetAt(ns, kind, base)].eps = Append(@, [ep |-> ep, label |-> label])]
    ELSE Append(ns, [kind |-> kind, base |-> base,
                     eps |-> <<[ep |-> ep, label |-> label]>>])

\* lines 75-83 keying signal and port nets by the display label, not the base name
AddBindingKeyedByLabel(ns, f, inst, item) ==
    LET c == ClassifyActual(item.actual, f) IN
    IF c.kind = "open" THEN ns
    ELSE IF c.kind \in {"signal", "eport"} /\ c.base # None
         THEN AddEp(ns, c.kind, c.label, InstEp(inst.label, item.formal), c.label)
    ELSE IF c.kind = "const"
         THEN AddEp(ns, "const", c.label, InstEp(inst.label, item.formal), c.label)
    ELSE AddEp(ns, "expr", c.label, InstEp(inst.label, item.formal), c.label)

\* body of the inner loop of lines 75-83, for one (formal, actual) item
AddBinding(ns, f, inst, item) ==
    LET c == ClassifyActual(item.actual, f) IN
    IF c.kind = "open" THEN ns
    ELSE IF c.kind \in {"signal", "eport"} /\ c.base # None
         THEN AddEp(ns, c.kind, c.base, InstEp(inst.label, item.formal), c.label)
    ELSE IF c.kind = "const"
         THEN AddEp(ns, "const", c.label, InstEp(inst.label, item.formal), c.label)
    ELSE AddEp(ns, "expr", c.label, InstEp(inst.label, item.formal), c.label)

RECURSIVE AddPortMap(_, _, _, _)
\* lines 75-83 for one instance, from item j of its port map
AddPortMap(ns, f, inst, j) ==
    IF j > Len(inst.port_map) THEN ns
    ELSE AddPortMap(AddBinding(ns, f, inst, inst.port_map[j]), f, inst, j + 1)

RECURSIVE AddInstances(_, _, _)
\* lines 74-83 from instance i
AddInstances(ns, f, i) ==
    IF i > Len(f.instances) THEN ns
    ELSE AddInstances(AddPortMap(ns, f, f.instances[i], 1), f, i + 1)

RECURSIVE AddEntityPorts(_, _, _)
\* lines 86-87 from port i
AddEntityPorts(ns, f, i) ==
    IF i > Len(f.ports) THEN ns
    ELSE AddEntityPorts(
            AddEp(ns, "eport", f.ports[i].name, EntityEp(f.ports[i].name), f.ports[i].name),
            f, i + 1)

\* lines 96-104: the driver text of an assignment, tagged when it is a dict
Tagged(a) ==
    IF ~a.isdict THEN a.expr
    ELSE IF a.kind = "cond" THEN a.expr \o <<" "," ","-","-"," ","c","o","n","d","i","t","i","o","n","a","l">>
    ELSE IF a.kind = "select" THEN a.expr \o <<" "," ","-","-"," ","w","i","t","h","-","s","e","l","e","c","t">>
    ELSE IF a.kind = "proc" THEN a.expr \o <<" "," ","-","-"," ","p","r","o","c","e","s","s">>
    ELSE a.expr

\* body of the loop of lines 90-105
AddAssignment(ns, a) ==
    LET tbase == SplitBaseSlice(a.target)[1] IN
    IF tbase # <<>> THEN AddEp(ns, "signal", tbase, ExprEp(Tagged(a)), a.target) ELSE ns

RECURSIVE AddAssignments(_, _, _)
AddAssignments(ns, f, i) ==
    IF i > Len(f.assignments) THEN ns
    ELSE AddAssignments(AddAssignment(ns, f.assignments[i]), f, i + 1)

\* lines 65-105
BuildNets(f) == AddAssignments(AddEntityPorts(AddInstances(<<>>, f, 1), f, 1), f, 1)

----------------------------------------------------------------------------
(* build_wiring: nodes                                                      *)

P_port  == <<"p","o","r","t",":",":">>
P_inst  == <<"i","n","s","t",":",":">>
P_const == <<"c","o","n","s","t",":",":">>
P_expr  == <<"e","x","p","r",":",":">>

\* node(): a node dict; inputs/outputs are None when the key is absent
Node(id, label, kind, inputs, outputs) ==
    [id |-> id, label |-> label, kind |-> kind, inputs |-> inputs, outputs |-> outputs]

\* lines 118-124
PortNode(f, p) ==
    LET d == EportDir(f, p.name, None)
        kind == IF d = S_in THEN "entity_in"
                ELSE IF d \in {S_out, S_buffer} THEN "entity_out"
                ELSE "entity_bi"
    IN  Node(P_port \o p.name, p.name \o <<" ", "(">> \o p.direction \o <<")">>, kind, None, None)

RECURSIVE Filter(_, _, _, _, _)
\* [fp for fp in formals if <test>] over the port map's keys, from item j
Filter(f, db, inst, j, wantIn) ==
    IF j > Len(inst.port_map) THEN <<>>
    ELSE LET fp   == inst.port_map[j].formal
             keep == IF wantIn THEN PinDir(f, db, inst.label, fp, S_in) = S_in
                     ELSE PinDir(f, db, inst.label, fp, None) \in {S_out, S_buffer}
         IN  (IF keep THEN <<fp>> ELSE <<>>) \o Filter(f, db, inst, j + 1, wantIn)

\* lines 128-133
InstNode(f, db, inst) ==
    Node(P_inst \o inst.label,
         inst.label \o <<" ", ":", " ">> \o OrElse(TargetOf(inst), <<"?">>),
         "instance", Filter(f, db, inst, 1, TRUE), Filter(f, db, inst, 1, FALSE))

\* line 139: any(ep[0] in ('entity','inst') for ep,_ in nd['eps'])
Connected(net) == \E i \in DOMAIN net.eps : net.eps[i].ep.tag \in {"entity", "inst"}

\* lines 137-140 making an expr node for every expr endpoint of the net, whatever
\* the kind of the net
NetNodesOfEveryDriver(net) ==
    (IF net.kind = "const" THEN <<Node(P_const \o net.base, net.base, "const", None, None)>>
     ELSE <<>>)
    \o
    (IF net.kind = "expr" /\ Connected(net)
     THEN <<Node(P_expr \o net.base, net.base, "expr", None, None)>> ELSE <<>>)
    \o
    (IF \E i \in DOMAIN net.eps : net.eps[i].ep.tag = "expr"
     THEN LET i == CHOOSE i \in DOMAIN net.eps : net.eps[i].ep.tag = "expr"
          IN  <<Node(P_expr \o net.eps[i].ep.a, net.eps[i].ep.a, "expr", None, None)>>
     ELSE <<>>)

\* lines 137-140 for one net
NetNodes(net) ==
    (IF net.kind = "const" THEN <<Node(P_const \o net.base, net.base, "const", None, None)>>
     ELSE <<>>)
    \o
    (IF net.kind = "expr" /\ Connected(net)
     THEN <<Node(P_expr \o net.base, net.base, "expr", None, None)>> ELSE <<>>)

RECURSIVE ConstExprNodes(_, _)
ConstExprNodes(ns, i) ==
    IF i > Len(ns) THEN <<>> ELSE NetNodes(ns[i]) \o ConstExprNodes(ns, i + 1)

\* lines 108-140
BuildNodes(f, db, ns) ==
    [i \in DOMAIN f.ports |-> PortNode(f, f.ports[i])]
    \o [i \in DOMAIN f.instances |-> InstNode(f, db, f.instances[i])]
    \o ConstExprNodes(ns, 1)

----------------------------------------------------------------------------
(* build_wiring: edges                                                      *)

\* lines 162-185 with the caller-relative polarity: entity in = sink, out = driver
RoleCallerRelative(f, db, net, e) ==
    IF e.ep.tag = "entity" THEN
        LET d == EportDir(f, e.ep.a, <<>>) IN
        [role |-> IF d = S_in THEN "sink"
                  ELSE IF d \in {S_out, S_buffer} THEN "driver" ELSE "unknown",
         nid |-> P_port \o e.ep.a, pin |-> e.ep.a, lab |-> e.label]
    ELSE IF e.ep.tag = "inst" THEN
        LET d == PinDir(f, db, e.ep.a, e.ep.b, <<>>) IN
        [role |-> IF d \in {S_out, S_buffer} THEN "driver"
                  ELSE IF d = S_in THEN "sink" ELSE "unknown",
         nid |-> P_inst \o e.ep.a, pin |-> e.ep.a \o <<".">> \o e.ep.b, lab |-> e.label]
    ELSE IF e.ep.tag = "expr" THEN
        [role |-> "driver", nid |-> P_expr \o e.ep.a, pin |-> e.ep.a, lab |-> e.label]
    ELSE
        [role |-> "driver", nid |-> P_const \o net.base, pin |-> net.base, lab |-> e.label]

\* the role an endpoint gets in lines 162-185, with its (node_id, pinlabel, ep_label)
Role(f, db, net, e) ==
    IF e.ep.tag = "entity" THEN
        LET d == EportDir(f, e.ep.a, <<>>) IN
        [role |-> IF d = S_in THEN "driver"
                  ELSE IF d \in {S_out, S_buffer} THEN "sink" ELSE "unknown",
         nid |-> P_port \o e.ep.a, pin |-> e.ep.a, lab |-> e.label]
    ELSE IF e.ep.tag = "inst" THEN
        LET d == PinDir(f, db, e.ep.a, e.ep.b, <<>>) IN
        [role |-> IF d \in {S_out, S_buffer} THEN "driver"
                  ELSE IF d = S_in THEN "sink" ELSE "unknown",
         nid |-> P_inst \o e.ep.a, pin |-> e.ep.a \o <<".">> \o e.ep.b, lab |-> e.label]
    ELSE IF e.ep.tag = "expr" THEN
        [role |-> "driver", nid |-> P_expr \o e.ep.a, pin |-> e.ep.a, lab |-> e.label]
    ELSE
        [role |-> "driver", nid |-> P_const \o net.base, pin |-> net.base, lab |-> e.label]

RECURSIVE Select(_, _, _, _, _)
\* the endpoints of the net that were appended to the list of the given role, in order
Select(f, db, net, i, role) ==
    IF i > Len(net.eps) THEN <<>>
    ELSE LET r == Role(f, db, net, net.eps[i]) IN
         (IF r.role = role THEN <<[nid |-> r.nid, pin |-> r.pin, lab |-> r.lab]>> ELSE <<>>)
         \o Select(f, db, net, i + 1, role)

Drivers(f, db, net) == Select(f, db, net, 1, "driver")
Sinks(f, db, net)   == Select(f, db, net, 1, "sink")
Unknown(f, db, net) == Select(f, db, net, 1, "unknown")

\* an edge dict before add_edge gives it an id and before bundling
Wire(src, dst, lab, base) ==
    [source |-> src.nid, target |-> dst.nid, label |-> lab, base |-> OrElse(base, lab),
     src_pin |-> OrElse(src.pin, <<>>), dst_pin |-> OrElse(dst.pin, <<>>)]

\* lines 188-192 leaving the outer loop after the first driver
BipartiteFirstDriverOnly(ds, ss, base) ==
    [k \in 1..Len(ss) |->
        Wire(ds[1], ss[k], OrElse(ss[k].lab, OrElse(ds[1].lab, base)), base)]

\* lines 188-192: for each driver, for each sink
Bipartite(ds, ss, base) ==
    [k \in 1..(Len(ds) * Len(ss)) |->
        LET d == ds[((k - 1) \div Len(ss)) + 1]
            s == ss[((k - 1) % Len(ss)) + 1]
        IN  Wire(d, s, OrElse(s.lab, OrElse(d.lab, base)), base)]

RECURSIVE Uniq(_, _)
\* lines 196-200: first occurrence of each (nid, pin), in order
Uniq(flat, i) ==
    IF i > Len(flat) THEN <<>>
    ELSE (IF \E j \in 1..(i - 1) : flat[j].nid = flat[i].nid /\ flat[j].pin = flat[i].pin
          THEN <<>> ELSE <<flat[i]>>)
         \o Uniq(flat, i + 1)

\* lines 195-204 without the deduplication of lines 196-200
ChainNoDedup(ds, ss, us, base) ==
    LET uniq == ds \o ss \o us IN
    [i \in 1..(Len(uniq) - 1) |->
        Wire(uniq[i], uniq[i + 1], OrElse(uniq[i + 1].lab, OrElse(uniq[i].lab, base)), base)]

\* lines 195-204
Chain(ds, ss, us, base) ==
    LET uniq == Uniq(ds \o ss \o us, 1) IN
    [i \in 1..(Len(uniq) - 1) |->
        Wire(uniq[i], uniq[i + 1], OrElse(uniq[i + 1].lab, OrElse(uniq[i].lab, base)), base)]

\* lines 157-204 for one net: the edges it adds, without ids
NetWires(f, db, net) ==
    LET ds == Drivers(f, db, net)
        ss == Sinks(f, db, net)
        us == Unknown(f, db, net)
    IN  IF ds # <<>> /\ ss # <<>> THEN Bipartite(ds, ss, net.base)
        ELSE Chain(ds, ss, us, net.base)

\* add_edge numbering the edges of each net from 0 again
AddEdgesNumberedPerNet(es, ws) ==
    es \o [k \in DOMAIN ws |->
            [id |-> <<"e">> \o Decimal(k - 1),
             source |-> ws[k].source, target |-> ws[k].target,
             label |-> ws[k].label, base |-> ws[k].base,
             src_pin |-> ws[k].src_pin, dst_pin |-> ws[k].dst_pin,
             bundle_n |-> None, bundle_idx |-> None]]

\* add_edge with a count of edges that is kept from one call of build_wiring to the
\* next instead of starting at 0
AddEdgesCountingAcrossCalls(es, ws) ==
    LET before == IF pc = "second" THEN Len(cls.edges) ELSE 0 IN
    es \o [k \in DOMAIN ws |->
            [id |-> <<"e">> \o Decimal(before + Len(es) + k - 1),
             source |-> ws[k].source, target |-> ws[k].target,
             label |-> ws[k].label, base |-> ws[k].base,
             src_pin |-> ws[k].src_pin, dst_pin |-> ws[k].dst_pin,
             bundle_n |-> None, bundle_idx |-> None]]

\* add_edge for each wire in turn: id e<len(edges)>; the bundle keys are not set yet
AddEdges(es, ws) ==
    es \o [k \in DOMAIN ws |->
            [id |-> <<"e">> \o Decimal(Len(es) + k - 1),
             source |-> ws[k].source, target |-> ws[k].target,
             label |-> ws[k].label, base |-> ws[k].base,
             src_pin |-> ws[k].src_pin, dst_pin |-> ws[k].dst_pin,
             bundle_n |-> None, bundle_idx |-> None]]

SameBundle(e1, e2) == e1.source = e2.source /\ e1.target = e2.target

\* lines 207-215 with the edge's position in the whole list as its index
BundledGlobalIndex(es) ==
    [i \in DOMAIN es |->
        [es[i] EXCEPT
            !.bundle_n   = Cardinality({j \in DOMAIN es : SameBundle(es[j], es[i])}),
            !.bundle_idx = i - 1]]

\* lines 207-215
Bundled(es) ==
    [i \in DOMAIN es |->
        [es[i] EXCEPT
            !.bundle_n   = Cardinality({j \in DOMAIN es : SameBundle(es[j], es[i])}),
            !.bundle_idx = Cardinality({j \in 1..(i - 1) : SameBundle(es[j], es[i])})]]

----------------------------------------------------------------------------
(* The design units build_wiring is run on                                  *)

MaxInst   == 2
MaxAssign == 1

N_p == <<"p">>
N_q == <<"q">>
N_d == <<"d">>
N_u == <<"u">>
N_v == <<"v">>
N_e == <<"e">>
N_x == <<"x">>
F_a == <<"a">>
F_b == <<"b">>
F_y == <<"y">>
F_z == <<"z">>
F_c == <<"c">>

T_d3    == <<"d","(","3",")">>
T_d70   == <<"d","(","7"," ","d","o","w","n","t","o"," ","0",")">>
T_d0    == <<"d","(","0",")">>
T_pd    == <<"(","d",")">>
T_p0    == <<"p","(","0",")">>
T_Open  == <<"O","p","e","n">>
T_OPEN  == <<" ","(","O","P","E","N",")"," ">>
T_one   == <<"'","1","'">>
T_pandq == <<"p"," ","&"," ","q">>
T_t     == <<"t">>

Port(name, direction) == [name |-> name, direction |-> direction]

Signal(name) == [name |-> name]

Instance(label, component_name, entity_ref, port_map) ==
    [label |-> label, component_name |-> component_name, entity_ref |-> entity_ref,
     port_map |-> port_map]

Bind(formal, act) == [formal |-> formal, actual |-> act]

\* the declared ports and signals of a unit
Declarations ==
    { [ports |-> <<Port(N_p, S_in), Port(N_q, S_out)>>, signals |-> <<>>],
      [ports |-> <<Port(N_p, S_in), Port(N_q, S_out)>>, signals |-> <<Signal(N_d)>>],
      [ports |-> <<Port(N_q, S_inout), Port(N_p, S_in)>>, signals |-> <<Signal(N_d)>>],
      [ports |-> <<Port(N_p, S_in), Port(N_p, S_out)>>, signals |-> <<Signal(N_d)>>] }

\* port maps: insertion-ordered dicts formal -> actual
PortMaps ==
    { <<Bind(F_y, T_d70), Bind(F_b, T_OPEN), Bind(F_a, T_d3)>>,
      <<Bind(F_b, T_p0), Bind(F_a, N_p), Bind(F_y, N_q), Bind(F_c, N_q)>>,
      <<Bind(F_a, T_pandq), Bind(F_b, T_one), Bind(F_z, T_pd), Bind(F_y, T_Open)>> }

InstancePool ==
    { Instance(N_u, None, N_e, pm) : pm \in PortMaps }
    \cup { Instance(N_v, N_e, None, pm) : pm \in PortMaps }
    \cup { Instance(N_v, N_x, None, pm) : pm \in PortMaps }
    \cup { Instance(N_u, <<>>, None, <<Bind(F_y, N_d), Bind(F_a, N_p)>>) }

AssignmentPool ==
    { [isdict |-> FALSE, target |-> N_q, expr |-> N_p, kind |-> ""],
      [isdict |-> TRUE, target |-> T_d0, expr |-> T_t, kind |-> "cond"] }

SeqsUpTo(S, n) == UNION {[1..k -> S] : k \in 0..n}

Units ==
    { [ports |-> d.ports, signals |-> d.signals, instances |-> is, assignments |-> as] :
        d \in Declarations,
        is \in SeqsUpTo(InstancePool, MaxInst),
        as \in SeqsUpTo(AssignmentPool, MaxAssign) }

\* the Entity Port-Direction Table: entity e is known, component x is not
DirectionTables ==
    { (N_e :> (F_a :> <<"i","n">> @@ F_b :> <<"I","N">>
               @@ F_y :> <<"o","u","t">> @@ F_z :> <<"i","n","o","u","t">>)) }

----------------------------------------------------------------------------
(* build_wiring as a state machine                                          *)

Init ==
    /\ fi \in Units
    /\ entity_port_db \in DirectionTables
    /\ pc = "aggregate"
    /\ nets = <<>>
    /\ nodes = <<>>
    /\ edges = <<>>
    /\ netIdx = 0
    /\ actual = None
    /\ cls = None

\* lines 53-105
Aggregate ==
    /\ pc = "aggregate"
    /\ nets' = BuildNets(fi)
    /\ pc' = "nodes"
    /\ UNCHANGED <<fi, entity_port_db, nodes, edges, netIdx, actual, cls>>

\* lines 108-140
MakeNodes ==
    /\ pc = "nodes"
    /\ nodes' = BuildNodes(fi, entity_port_db, nets)
    /\ pc' = "edges"
    /\ UNCHANGED <<fi, entity_port_db, nets, edges, netIdx, actual, cls>>

\* one iteration of the loop of lines 156-204
EmitNet ==
    /\ pc = "edges"
    /\ netIdx < Len(nets)
    /\ edges' = AddEdges(edges, NetWires(fi, entity_port_db, nets[netIdx + 1]))
    /\ netIdx' = netIdx + 1
    /\ UNCHANGED <<fi, entity_port_db, pc, nets, nodes, actual, cls>>

\* lines 207-217
AssignBundles ==
    /\ pc = "edges"
    /\ netIdx = Len(nets)
    /\ edges' = Bundled(edges)
    /\ pc' = "done"
    /\ UNCHANGED <<fi, entity_port_db, nets, nodes, netIdx, actual, cls>>

Next == Aggregate \/ MakeNodes \/ EmitNet \/ AssignBundles

Spec == Init /\ [][Next]_vars

----------------------------------------------------------------------------
(* build_wiring called twice on the same unit and table                     *)

RECURSIVE EdgesFrom(_, _, _, _, _)
\* the loop of lines 156-204 from net i, given the edges added so far
EdgesFrom(f, db, ns, i, es) ==
    IF i > Len(ns) THEN es
    ELSE EdgesFrom(f, db, ns, i + 1, AddEdges(es, NetWires(f, db, ns[i])))

\* build_wiring: its nets and the dict it returns
BuildWiring(f, db) ==
    LET ns == BuildNets(f) IN
    [nets |-> ns, nodes |-> BuildNodes(f, db, ns),
     edges |-> Bundled(EdgesFrom(f, db, ns, 1, <<>>))]

\* the units build_wiring is called twice on: the instances of entity e with each
\* port map, and the instances of the unknown component x
TwiceUnits ==
    {u \in Units :
        \A i \in DOMAIN u.instances :
            u.instances[i].entity_ref = N_e \/ u.instances[i].component_name = N_x}

InitTwice ==
    /\ fi \in TwiceUnits
    /\ entity_port_db \in DirectionTables
    /\ pc = "first"
    /\ nets = <<>>
    /\ nodes = <<>>
    /\ edges = <<>>
    /\ netIdx = 0
    /\ actual = None
    /\ cls = None

\* one whole call of build_wiring (lines 46-217)
Run ==
    /\ pc \in {"first", "second"}
    /\ LET g == BuildWiring(fi, entity_port_db)
       IN  /\ nets' = g.nets
           /\ nodes' = g.nodes
           /\ edges' = g.edges
    /\ netIdx' = Len(nets')
    /\ pc' = IF pc = "first" THEN "returned" ELSE "returned again"
    /\ UNCHANGED <<fi, entity_port_db, actual, cls>>

\* the caller keeps the returned dict and calls build_wiring again with the same
\* arguments; the locals of the new call start empty (lines 65, 108, 143)
CallAgain ==
    /\ pc = "returned"
    /\ cls' = [nodes |-> nodes, edges |-> edges]
    /\ nets' = <<>>
    /\ nodes' = <<>>
    /\ edges' = <<>>
    /\ netIdx' = 0
    /\ pc' = "second"
    /\ UNCHANGED <<fi, entity_port_db, actual>>

NextTwice == Run \/ CallAgain

SpecTwice == InitTwice /\ [][NextTwice]_vars

----------------------------------------------------------------------------
(* _classify_actual on its own                                              *)

MaxNames == 1

N_1 == <<"1">>
N_b == <<"b">>

T_zero   == <<"0">>
T_str    == <<"\"","0","0","0","0","\"">>
T_hex    == <<"x","\"","F","F","\"">>
T_HEX    == <<"X","\"","f","f","\"">>
T_bin    == <<"b","\"","0","1","\"">>
T_pone   == <<"(","1",")">>
T_open   == <<"o","p","e","n">>
T_fd     == <<"f","(","d",")">>
T_notd   == <<"n","o","t"," ","d">>
T_x3     == <<"x","(","3",")">>
T_d3d4   == <<"d","(","3",")"," ","&"," ","d","(","4",")">>

\* the names a unit may declare, as the extractor's \w+ lets them be
ClassifyNames == {N_d, N_p, N_x, N_b, N_1}

ClassifyUnits ==
    { [ports |-> [i \in DOMAIN ps |-> Port(ps[i], S_in)],
       signals |-> [i \in DOMAIN ss |-> Signal(ss[i])],
       instances |-> <<>>, assignments |-> <<>>] :
        ps \in SeqsUpTo(ClassifyNames, MaxNames), ss \in SeqsUpTo(ClassifyNames, MaxNames) }

SixLiterals == {T_zero, N_1, T_one, T_str, T_hex, T_bin}

Actuals ==
    SixLiterals \cup
    {T_HEX, T_pone, T_open, T_Open, T_OPEN, N_d, N_x, N_b, T_d3, T_d70, T_pd, T_p0, T_x3,
     T_pandq, T_fd, T_notd, T_d3d4}

InitClassify ==
    /\ fi \in ClassifyUnits
    /\ entity_port_db \in DirectionTables
    /\ actual \in Actuals
    /\ pc = "classify"
    /\ cls = None
    /\ nets = <<>>
    /\ nodes = <<>>
    /\ edges = <<>>
    /\ netIdx = 0

\* one call of _classify_actual (lines 25-44)
Classify ==
    /\ pc = "classify"
    /\ cls' = ClassifyActual(actual, fi)
    /\ pc' = "classified"
    /\ UNCHANGED <<fi, entity_port_db, nets, nodes, edges, netIdx, actual>>

NextClassify == Classify

SpecClassify == InitClassify /\ [][NextClassify]_vars

----------------------------------------------------------------------------
(* _strip_outer_parens on its own                                           *)

MaxLen == 4

\* the characters the function tells apart: parentheses, blanks, anything else
StripAlphabet == {"(", ")", "a", " "}

Texts == SeqsUpTo(StripAlphabet, MaxLen)

InitStrip ==
    /\ actual \in Texts
    /\ pc = "strip"
    /\ cls = None
    /\ fi = [ports |-> <<>>, signals |-> <<>>, instances |-> <<>>, assignments |-> <<>>]
    /\ entity_port_db \in DirectionTables
    /\ nets = <<>>
    /\ nodes = <<>>
    /\ edges = <<>>
    /\ netIdx = 0

\* one call of _strip_outer_parens (lines 4-15)
StripParens ==
    /\ pc = "strip"
    /\ cls' = StripOuterParens(actual)
    /\ pc' = "stripped"
    /\ UNCHANGED <<fi, entity_port_db, nets, nodes, edges, netIdx, actual>>

NextStrip == StripParens

SpecStrip == InitStrip /\ [][NextStrip]_vars

----------------------------------------------------------------------------
(* _classify_actual on a text and on the text in one more pair of           *)
(* parentheses                                                              *)

\* '(' + s + ')'
Wrap(s) == <<"(">> \o s \o <<")">>

\* units that declare a or d as a port, as a signal, as both or not at all
WrapNames == {<<>>, <<<<"a">>>>, <<N_d>>}

WrapUnits ==
    { [ports |-> [i \in DOMAIN ps |-> Port(ps[i], S_in)],
       signals |-> [i \in DOMAIN ss |-> Signal(ss[i])],
       instances |-> <<>>, assignments |-> <<>>] :
        ps \in WrapNames, ss \in WrapNames }

InitWrap ==
    /\ fi \in WrapUnits
    /\ entity_port_db \in DirectionTables
    /\ actual \in Texts \cup Actuals
    /\ pc = "plain"
    /\ cls = None
    /\ nets = <<>>
    /\ nodes = <<>>
    /\ edges = <<>>
    /\ netIdx = 0

\* _classify_actual(s, fi) (lines 25-44)
ClassifyPlain ==
    /\ pc = "plain"
    /\ cls' = [plain |-> ClassifyActual(actual, fi)]
    /\ pc' = "wrapped"
    /\ UNCHANGED <<fi, entity_port_db, nets, nodes, edges, netIdx, actual>>

\* _classify_actual('(' + s + ')', fi) (lines 25-44)
ClassifyWrapped ==
    /\ pc = "wrapped"
    /\ cls' = [plain |-> cls.plain, wrapped |-> ClassifyActual(Wrap(actual), fi)]
    /\ pc' = "compared"
    /\ UNCHANGED <<fi, entity_port_db, nets, nodes, edges, netIdx, actual>>

NextWrap == ClassifyPlain \/ ClassifyWrapped

SpecWrap == InitWrap /\ [][NextWrap]_vars

----------------------------------------------------------------------------
(* src/parser.py: _split_assoc_list and _parse_portmap, followed by          *)
(* build_wiring on the instance that gets the parsed port map               *)

\* the locals of _split_assoc_list before its loop (parser.py lines 12-14);
\* skip: the next character was already appended by line 22
ScanStart == [parts |-> <<>>, buf |-> <<>>, depth |-> 0, in_str |-> FALSE, quote |-> "",
              skip |-> FALSE]

\* one character of the while loop of _split_assoc_list (parser.py lines 16-34);
\* more: the character is not the last one
ScanStep(st, ch, more) ==
    IF st.skip THEN [st EXCEPT !.buf = Append(@, ch), !.skip = FALSE]
    ELSE IF st.in_str THEN
        IF ch = st.quote THEN [st EXCEPT !.buf = Append(@, ch), !.in_str = FALSE]
        ELSE IF ch = "\\" /\ more THEN [st EXCEPT !.buf = Append(@, ch), !.skip = TRUE]
        ELSE [st EXCEPT !.buf = Append(@, ch)]
    ELSE IF ch \in {"\"", "'"}
        THEN [st EXCEPT !.buf = Append(@, ch), !.in_str = TRUE, !.quote = ch]
    ELSE IF ch \in {"(", "[", "{"}
        THEN [st EXCEPT !.buf = Append(@, ch), !.depth = @ + 1]
    ELSE IF ch \in {")", "]", "}"}
        THEN [st EXCEPT !.buf = Append(@, ch), !.depth = IF @ - 1 > 0 THEN @ - 1 ELSE 0]
    ELSE IF ch = "," /\ st.depth = 0
        THEN [st EXCEPT !.parts = Append(@, Strip(st.buf)), !.buf = <<>>]
    ELSE [st EXCEPT !.buf = Append(@, ch)]

RECURSIVE ScanRange(_, _, _, _)
\* the locals of _split_assoc_list after the characters i..j of s, given the locals
\* st before them; the first half of the range is worked out before the second
\* is entered, so that the evaluation stays shallow on long texts
ScanRange(st, s, i, j) ==
    IF i > j THEN st
    ELSE IF i = j THEN ScanStep(st, s[i], i < Len(s))
    ELSE LET m    == (i + j) \div 2
             left == ScanRange(st, s, i, m)
         IN  IF left.depth >= 0 THEN ScanRange(left, s, m + 1, j) ELSE left

NonEmpty(part) == part # <<>>

\* _split_assoc_list (parser.py lines 11-36)
SplitAssocList(s) ==
    LET st    == ScanRange(ScanStart, s, 1, Len(s))
        parts == IF st.buf # <<>> THEN Append(st.parts, Strip(st.buf)) ELSE st.parts
    IN  SelectSeq(parts, NonEmpty)

\* '=>' in item
HasArrow(item) == \E i \in 1..(Len(item) - 1) : item[i] = "=" /\ item[i + 1] = ">"

\* the position (1-based) of the first '=>' of an item that has one
ArrowAt(item) ==
    CHOOSE i \in 1..(Len(item) - 1) :
        /\ item[i] = "=" /\ item[i + 1] = ">"
        /\ \A j \in 1..(i - 1) : ~ (item[j] = "=" /\ item[j + 1] = ">")

\* pm.setdefault(formal, actual): the first binding of a formal is kept
SetDefault(pm, formal, act) ==
    IF \E j \in DOMAIN pm : pm[j].formal = formal THEN pm
    ELSE Append(pm, Bind(formal, act))

\* pm[formal] = actual on an insertion-ordered dict: a key that is already there
\* keeps its place and gets the new value
SetItem(pm, formal, act) ==
    IF \E j \in DOMAIN pm : pm[j].formal = formal
    THEN [j \in DOMAIN pm |-> IF pm[j].formal = formal THEN Bind(formal, act) ELSE pm[j]]
    ELSE Append(pm, Bind(formal, act))

RECURSIVE ParseItems(_, _, _)
\* the for loop of _parse_portmap (parser.py lines 41-46) from item i
ParseItems(items, i, pm) ==
    IF i > Len(items) THEN pm
    ELSE LET item == items[i] IN
      IF ~ HasArrow(item) THEN ParseItems(items, i + 1, pm)
      ELSE LET k      == ArrowAt(item)
               formal == Strip(SubSeq(item, 1, k - 1))
               act    == Strip(SubSeq(item, k + 2, Len(item)))
           IN  IF Lower(formal) = <<"o","t","h","e","r","s">>
               THEN ParseItems(items, i + 1, pm)
               ELSE ParseItems(items, i + 1, SetItem(pm, formal, act))

\* _parse_portmap
ParsePortmap(blob) == IF blob = <<>> THEN <<>> ELSE ParseItems(SplitAssocList(blob), 1, <<>>)

MaxAssoc == 3

T_others == <<"(","o","t","h","e","r","s","=",">","'","0","'",")">>
T_fpq    == <<"f","(","p",","," ","q",")">>

\* the associations a port map text is made of: formal (None: positional) and
\* actual, as written
AssocPool ==
    { [formal |-> <<" ","a"," ">>, actual |-> <<" ">> \o T_d3 \o <<" ">>],
      [formal |-> F_a, actual |-> N_p],
      [formal |-> F_y, actual |-> N_q],
      [formal |-> F_y, actual |-> T_fpq],
      [formal |-> F_b, actual |-> T_others],
      [formal |-> F_a, actual |-> T_open],
      [formal |-> <<"O","t","h","e","r","s">>, actual |-> T_one],
      [formal |-> None, actual |-> N_d] }

AssocText(r) == IF r.formal = None THEN r.actual ELSE r.formal \o <<"=",">">> \o r.actual

RECURSIVE Blob(_, _)
\* the text of an association list from item i: its items joined by commas
Blob(l, i) ==
    IF i > Len(l) THEN <<>>
    ELSE AssocText(l[i]) \o (IF i < Len(l) THEN <<",">> ELSE <<>>) \o Blob(l, i + 1)

InitPortmap ==
    /\ cls \in SeqsUpTo(AssocPool, MaxAssoc)
    /\ actual = Blob(cls, 1)
    /\ pc = "parse"
    /\ fi = [ports |-> <<Port(N_p, S_in), Port(N_q, S_out)>>, signals |-> <<Signal(N_d)>>,
             instances |-> <<Instance(N_u, None, N_e, <<>>)>>, assignments |-> <<>>]
    /\ entity_port_db \in DirectionTables
    /\ nets = <<>>
    /\ nodes = <<>>
    /\ edges = <<>>
    /\ netIdx = 0

\* parser.py lines 84-90: the instance gets the port map parsed from the text
ParseInstance ==
    /\ pc = "parse"
    /\ fi' = [fi EXCEPT !.instances[1].port_map = ParsePortmap(actual)]
    /\ pc' = "aggregate"
    /\ UNCHANGED <<entity_port_db, nets, nodes, edges, netIdx, actual, cls>>

NextPortmap == ParseInstance \/ Aggregate \/ MakeNodes \/ EmitNet \/ AssignBundles

SpecPortmap == InitPortmap /\ [][NextPortmap]_vars

----------------------------------------------------------------------------
(* Properties of the returned graph                                         *)

NodeIds == {nodes[i].id : i \in DOMAIN nodes}

\* C1: in the returned graph every edge's source and every edge's target is the
\* id of a node of the returned node list.
C1_EdgeEndpointsAreNodes ==
    pc = "done" =>
        \A i \in DOMAIN edges : edges[i].source \in NodeIds /\ edges[i].target \in NodeIds

MinimalUnit ==
    [ports |-> <<Port(N_p, S_in), Port(N_q, S_out)>>, signals |-> <<>>,
     instances |-> <<>>,
     assignments |-> <<[isdict |-> FALSE, target |-> N_q, expr |-> N_p, kind |-> ""]>>]

\* C2: the unit with ports p (in) and q (out), no signals, no instances and the
\* single assignment q <= p gets exactly one edge, from p's node to q's node.
C2_MinimalUnitOneEdge ==
    (pc = "done" /\ fi = MinimalUnit) =>
        /\ Len(edges) = 1
        /\ edges[1].source = P_port \o N_p
        /\ edges[1].target = P_port \o N_q

\* the drivers and the sinks of the net the edge loop is about to go through
CurDrivers == Drivers(fi, entity_port_db, nets[netIdx + 1])
CurSinks   == Sinks(fi, entity_port_db, nets[netIdx + 1])

\* C3: for a net with d >= 1 drivers and s >= 1 sinks the edge loop adds exactly
\* d*s edges, one per (driver, sink) pair, from the driver's node to the sink's
\* node, with the driver's pin as src_pin and the sink's pin as dst_pin.
C3_BipartiteEdges ==
    [][ (pc = "edges" /\ netIdx < Len(nets) /\ Len(CurDrivers) >= 1 /\ Len(CurSinks) >= 1) =>
            /\ Len(edges') = Len(edges) + Len(CurDrivers) * Len(CurSinks)
            /\ \A i \in DOMAIN CurDrivers : \A j \in DOMAIN CurSinks :
                 LET e == edges'[Len(edges) + (i - 1) * Len(CurSinks) + j] IN
                   /\ e.source  = CurDrivers[i].nid
                   /\ e.target  = CurSinks[j].nid
                   /\ e.src_pin = CurDrivers[i].pin
                   /\ e.dst_pin = CurSinks[j].pin ]_vars

\* a net with drivers {A} and sinks {B, C}, B # C, has just got its edges A->B, A->C
C3_Witness ==
    /\ pc = "edges"
    /\ netIdx >= 1
    /\ LET ds == Drivers(fi, entity_port_db, nets[netIdx])
           ss == Sinks(fi, entity_port_db, nets[netIdx])
       IN  /\ Len(ds) = 1
           /\ Len(ss) = 2
           /\ ss[1].pin # ss[2].pin
           /\ Len(edges) >= 2
           /\ edges[Len(edges) - 1].source = ds[1].nid
           /\ edges[Len(edges) - 1].dst_pin = ss[1].pin
           /\ edges[Len(edges)].source = ds[1].nid
           /\ edges[Len(edges)].dst_pin = ss[2].pin

\* the port-map items of the unit: <<instance index, item index>>
Items ==
    UNION {{<<i, j>> : j \in DOMAIN fi.instances[i].port_map} : i \in DOMAIN fi.instances}

ItemInst(it)   == fi.instances[it[1]]
ItemFormal(it) == fi.instances[it[1]].port_map[it[2]].formal
ItemActual(it) == fi.instances[it[1]].port_map[it[2]].actual
ItemPin(it)    == ItemInst(it).label \o <<".">> \o ItemFormal(it)
ItemDir(it)    == PinDir(fi, entity_port_db, ItemInst(it).label, ItemFormal(it), <<>>)

\* instance U binds formal f (table direction in) to the entity port P declared in
BindsInToIn(it) ==
    /\ ClassifyActual(ItemActual(it), fi).kind = "eport"
    /\ EportDir(fi, ClassifyActual(ItemActual(it), fi).base, <<>>) = S_in
    /\ ItemDir(it) = S_in

\* instance U binds formal g (table direction out) to the entity port Q declared out
BindsOutToOut(it) ==
    /\ ClassifyActual(ItemActual(it), fi).kind = "eport"
    /\ EportDir(fi, ClassifyActual(ItemActual(it), fi).base, <<>>) = S_out
    /\ ItemDir(it) = S_out

IsSliceOf(text, S) ==
    \/ text = S
    \/ /\ Len(text) > Len(S) + 1
       /\ StartsWith(text, S \o <<"(">>)
       /\ EndsWith(text, <<")">>)

\* the nets that hold the endpoint a port-map item contributes
NetsOfItem(it) ==
    {n \in DOMAIN nets :
        \E e \in DOMAIN nets[n].eps :
            /\ nets[n].eps[e].ep = InstEp(ItemInst(it).label, ItemFormal(it))
            /\ nets[n].eps[e].label = StripOuterParens(ItemActual(it))}

\* C5: port-map actuals that are a declared signal name S, possibly followed by an
\* index or slice, all land in the one net keyed (signal, S), in the same or in
\* different instances, and a driver pin bound to one of them has an edge to a sink
\* pin bound to another.
C5_BundleMerge ==
    pc = "done" =>
      \A S \in SigNames(fi) :
        /\ Cardinality({n \in DOMAIN nets : nets[n].base = S /\ nets[n].kind = "signal"}) <= 1
        /\ \A it \in Items :
             IsSliceOf(ItemActual(it), S) =>
               /\ NetsOfItem(it) # {}
               /\ \A n \in NetsOfItem(it) : nets[n].kind = "signal" /\ nets[n].base = S
        /\ \A it1 \in Items : \A it2 \in Items :
             ( /\ IsSliceOf(ItemActual(it1), S) /\ IsSliceOf(ItemActual(it2), S)
               /\ ItemDir(it1) \in {S_out, S_buffer}
               /\ ItemDir(it2) = S_in ) =>
                 \E k \in DOMAIN edges :
                   /\ edges[k].base = S
                   /\ edges[k].source = P_inst \o ItemInst(it1).label
                   /\ edges[k].target = P_inst \o ItemInst(it2).label
                   /\ edges[k].src_pin = ItemPin(it1)
                   /\ edges[k].dst_pin = ItemPin(it2)

\* d(7 downto 0) drives from one instance, d(3) sinks in another, and the returned
\* graph has the edge between the two pins
C5_Witness ==
    /\ pc = "done"
    /\ \E it1 \in Items : \E it2 \in Items :
         /\ it1[1] # it2[1]
         /\ ItemInst(it1).label # ItemInst(it2).label
         /\ ItemActual(it1) = T_d70 /\ ItemActual(it2) = T_d3
         /\ N_d \in SigNames(fi)
         /\ ItemDir(it1) = S_out /\ ItemDir(it2) = S_in
         /\ \E k \in DOMAIN edges :
              edges[k].src_pin = ItemPin(it1) /\ edges[k].dst_pin = ItemPin(it2)

\* (node id, pin) of the i-th endpoint of a net
EpKey(net, i) ==
    LET r == Role(fi, entity_port_db, net, net.eps[i]) IN <<r.nid, r.pin>>

AllUnknown(net) ==
    \A i \in DOMAIN net.eps : Role(fi, entity_port_db, net, net.eps[i]).role = "unknown"

\* the positions where a (node id, pin) occurs for the first time in the net
FirstOcc(net) ==
    {i \in DOMAIN net.eps : \A j \in 1..(i - 1) : EpKey(net, j) # EpKey(net, i)}

\* the k-th smallest element of a set of numbers
Kth(S, k) == CHOOSE i \in S : Cardinality({j \in S : j <= i}) = k

\* C6: for a net all of whose endpoints have unknown direction, with n distinct
\* (node, pin) endpoints, the edge loop adds exactly n-1 edges, the i-th from the
\* i-th to the (i+1)-th distinct endpoint in aggregation order.
C6_UnknownChain ==
    [][ (pc = "edges" /\ netIdx < Len(nets) /\ AllUnknown(nets[netIdx + 1])) =>
            LET net == nets[netIdx + 1]
                n   == Cardinality(FirstOcc(net))
            IN  /\ Len(edges') = Len(edges) + n - 1
                /\ \A i \in 1..(n - 1) :
                     LET e == edges'[Len(edges) + i] IN
                       /\ <<e.source, e.src_pin>> = EpKey(net, Kth(FirstOcc(net), i))
                       /\ <<e.target, e.dst_pin>> = EpKey(net, Kth(FirstOcc(net), i + 1)) ]_vars

\* a net of unknown endpoints, some of them repeated, has just been chained
C6_Witness ==
    /\ pc = "edges"
    /\ netIdx >= 1
    /\ AllUnknown(nets[netIdx])
    /\ Cardinality(FirstOcc(nets[netIdx])) >= 2
    /\ Len(nets[netIdx].eps) > Cardinality(FirstOcc(nets[netIdx]))
    /\ Len(edges) >= 1
    /\ <<edges[Len(edges)].target, edges[Len(edges)].dst_pin>>
         = EpKey(nets[netIdx], Kth(FirstOcc(nets[netIdx]), Cardinality(FirstOcc(nets[netIdx]))))

BundleOf(i) == {j \in DOMAIN edges : SameBundle(edges[j], edges[i])}

\* C7: in the returned graph bundle_n is the number of edges with the edge's
\* (source, target) pair, 0 <= bundle_idx < bundle_n, no two edges of a pair share
\* a bundle_idx, and within a pair bundle_idx grows in emission order.
C7_BundleIndexing ==
    pc = "done" =>
      \A i \in DOMAIN edges :
        /\ edges[i].bundle_n = Cardinality(BundleOf(i))
        /\ edges[i].bundle_idx >= 0
        /\ edges[i].bundle_idx < edges[i].bundle_n
        /\ \A j \in BundleOf(i) :
             /\ j # i => edges[j].bundle_idx # edges[i].bundle_idx
             /\ j < i => edges[j].bundle_idx < edges[i].bundle_idx

\* three parallel edges with size 3 and indices 0, 1, 2, with an edge of another
\* pair emitted between them
C7_Witness ==
    /\ pc = "done"
    /\ \E i \in DOMAIN edges : \E j \in DOMAIN edges : \E k \in DOMAIN edges :
         /\ i < j /\ j < k
         /\ SameBundle(edges[i], edges[j]) /\ SameBundle(edges[j], edges[k])
         /\ \E m \in (i + 1)..(k - 1) : ~ SameBundle(edges[m], edges[i])
         /\ edges[i].bundle_n = 3
         /\ edges[i].bundle_idx = 0 /\ edges[j].bundle_idx = 1 /\ edges[k].bundle_idx = 2

\* the actual is open in some letter case, after trimming and paren stripping
IsOpenActual(text) == Lower(StripOuterParens(text)) = <<"o","p","e","n">>

\* how many endpoints ('inst', il, formal) the nets hold
EndpointCount(il, formal) ==
    Cardinality(UNION {{<<n, e>> : e \in {x \in DOMAIN nets[n].eps :
                                            nets[n].eps[x].ep = InstEp(il, formal)}} :
                       n \in DOMAIN nets})

\* the port-map items of instances labelled il that bind formal to something not open
ConnectedItems(il, formal) ==
    {it \in Items : /\ ItemInst(it).label = il
                    /\ ItemFormal(it) = formal
                    /\ ~ IsOpenActual(ItemActual(it))}

\* C8: a formal whose actual is open, in any letter case, adds no endpoint to any
\* net (every other binding adds exactly one), no const or expr net or node is made
\* for it, and no edge has that formal as its source or target pin.
C8_OpenDrop ==
    pc = "done" =>
      /\ \A it \in Items :
           LET il == ItemInst(it).label
               fp == ItemFormal(it)
           IN  /\ EndpointCount(il, fp) = Cardinality(ConnectedItems(il, fp))
               /\ (IsOpenActual(ItemActual(it)) /\ ConnectedItems(il, fp) = {}) =>
                    \A k \in DOMAIN edges :
                      /\ ~ (edges[k].source = P_inst \o il /\ edges[k].src_pin = ItemPin(it))
                      /\ ~ (edges[k].target = P_inst \o il /\ edges[k].dst_pin = ItemPin(it))
      /\ \A n \in DOMAIN nets :
           nets[n].kind \in {"const", "expr"} => ~ IsOpenActual(nets[n].base)
      /\ \A n \in DOMAIN nodes :
           nodes[n].kind \in {"const", "expr"} => ~ IsOpenActual(nodes[n].label)

\* a returned graph with edges, of a unit with an instance that leaves one formal
\* Open and another instance that leaves one (OPEN)
C8_Witness ==
    /\ pc = "done"
    /\ edges # <<>>
    /\ \E it \in Items : ItemActual(it) = T_Open /\ ConnectedItems(ItemInst(it).label, ItemFormal(it)) = {}
    /\ \E it \in Items : ItemActual(it) = T_OPEN /\ ConnectedItems(ItemInst(it).label, ItemFormal(it)) = {}
    /\ \E n \in DOMAIN nodes : nodes[n].kind = "const"

\* C9: _classify_actual returns kind const with base None for 0, 1, '1', "0000",
\* x"FF" and b"01", whatever signal and port names the unit declares.
C9_LiteralsAreConst ==
    (pc = "classified" /\ actual \in SixLiterals) =>
        cls.kind = "const" /\ cls.base = None

\* x"FF" has been classified const in a unit that declares a signal named x
C9_Witness ==
    /\ pc = "classified"
    /\ actual = T_hex
    /\ N_x \in SigNames(fi)
    /\ cls.kind = "const"
    /\ cls.label = T_hex

PortNamesDistinct ==
    \A i \in DOMAIN fi.ports : \A j \in DOMAIN fi.ports :
        i # j => fi.ports[i].name # fi.ports[j].name

LabelsDistinct ==
    \A i \in DOMAIN fi.instances : \A j \in DOMAIN fi.instances :
        i # j => fi.instances[i].label # fi.instances[j].label

IdsDistinct(ds) == \A i \in DOMAIN ds : \A j \in DOMAIN ds : i # j => ds[i].id # ds[j].id

\* C10 as stated: for every unit whose port names are pairwise distinct, with any
\* instances and assignments, the node ids of the returned graph are pairwise
\* distinct and so are the edge ids.
C10_IdsDistinct ==
    (pc = "done" /\ PortNamesDistinct) => IdsDistinct(nodes) /\ IdsDistinct(edges)

\* C10 amended: for every unit whose port names are pairwise distinct and whose
\* instance labels are pairwise distinct, the node ids of the returned graph are
\* pairwise distinct and so are the edge ids.
C10_IdsDistinctForDistinctLabels ==
    (pc = "done" /\ PortNamesDistinct /\ LabelsDistinct) =>
        IdsDistinct(nodes) /\ IdsDistinct(edges)

\* a returned graph of a unit with two ports, two instances of different labels,
\* a const node, an expr node and edges of several nets
C10_Witness ==
    /\ pc = "done"
    /\ PortNamesDistinct /\ LabelsDistinct
    /\ Len(fi.ports) = 2 /\ Len(fi.instances) = 2
    /\ \E n \in DOMAIN nodes : nodes[n].kind = "const"
    /\ \E n \in DOMAIN nodes : nodes[n].kind = "expr"
    /\ \E i \in DOMAIN edges : \E j \in DOMAIN edges : edges[i].base # edges[j].base

\* the id prefix of a const or expr node
PrefixOf(kind) == IF kind = "const" THEN P_const ELSE P_expr

\* the nets of kind const or expr that a const or expr node stands for
NetsOfNode(n) ==
    {k \in DOMAIN nets : /\ nets[k].kind = n.kind
                         /\ n.id = PrefixOf(n.kind) \o nets[k].base
                         /\ n.label = nets[k].base}

\* C11: every const or expr node of the returned list stands for a net of its kind
\* that has an entity-port or instance-pin endpoint, one node per such net; a net
\* without such an endpoint (an assignment's expression on a signal nothing is
\* bound to) gets no node for its expression.
C11_LazyConstExprNodes ==
    pc = "done" =>
      /\ \A i \in DOMAIN nodes :
           nodes[i].kind \in {"const", "expr"} =>
             /\ NetsOfNode(nodes[i]) # {}
             /\ \A k \in NetsOfNode(nodes[i]) : Connected(nets[k])
      /\ Cardinality({i \in DOMAIN nodes : nodes[i].kind \in {"const", "expr"}})
           = Cardinality({k \in DOMAIN nets : nets[k].kind \in {"const", "expr"}
                                               /\ Connected(nets[k])})
      /\ \A k \in DOMAIN nets :
           ~ Connected(nets[k]) =>
             \A e \in DOMAIN nets[k].eps : \A i \in DOMAIN nodes :
               nodes[i].id # PrefixOf("expr") \o nets[k].eps[e].ep.a

\* a returned graph with a const node and an expr node of port-map actuals, of a
\* unit that also assigns an expression to a signal no pin or port is bound to
C11_Witness ==
    /\ pc = "done"
    /\ \E i \in DOMAIN nodes : nodes[i].kind = "const" /\ NetsOfNode(nodes[i]) # {}
    /\ \E i \in DOMAIN nodes : nodes[i].kind = "expr" /\ NetsOfNode(nodes[i]) # {}
    /\ \E k \in DOMAIN nets :
         /\ ~ Connected(nets[k])
         /\ nets[k].eps[1].ep.tag = "expr"

DriverNodeId(it) ==
    LET c == ClassifyActual(ItemActual(it), fi) IN PrefixOf(c.kind) \o c.label

\* C13: a literal or opaque expression bound to an instance pin of table direction
\* in drives that pin: the returned graph has an edge from the const (expr) node to
\* the instance's node with the formal as target pin, and every const or expr node
\* has an incident edge.
C13_ConstExprDrive ==
    pc = "done" =>
      /\ \A it \in Items :
           ( /\ ClassifyActual(ItemActual(it), fi).kind \in {"const", "expr"}
             /\ ItemDir(it) = S_in ) =>
               \E k \in DOMAIN edges :
                 /\ edges[k].source = DriverNodeId(it)
                 /\ edges[k].target = P_inst \o ItemInst(it).label
                 /\ edges[k].dst_pin = ItemPin(it)
      /\ \A i \in DOMAIN nodes :
           nodes[i].kind \in {"const", "expr"} =>
             \E k \in DOMAIN edges :
               edges[k].source = nodes[i].id \/ edges[k].target = nodes[i].id

\* the distinct (node id, pin) endpoints of a net
EpKeys(net) == {EpKey(net, i) : i \in DOMAIN net.eps}

\* C14: in the returned graph, for every net with at least two distinct (node, pin)
\* endpoints, every endpoint of the net, whatever its role, is the source or the
\* target (node, pin) of at least one edge.
C14_EveryEndpointWired ==
    pc = "done" =>
      \A n \in DOMAIN nets :
        Cardinality(EpKeys(nets[n])) >= 2 =>
          \A key \in EpKeys(nets[n]) :
            \E k \in DOMAIN edges :
              \/ <<edges[k].source, edges[k].src_pin>> = key
              \/ <<edges[k].target, edges[k].dst_pin>> = key

\* actuals that are a concatenation, a function call or cast, or an operator
\* expression
Compound == {T_pandq, T_d3d4, T_fd, T_notd}

\* C15: _classify_actual returns kind expr with base None for every concatenation,
\* function call or cast and operator expression, whatever its operands are.
C15_CompoundIsExpr ==
    (pc = "classified" /\ actual \in Compound) =>
        cls.kind = "expr" /\ cls.base = None

RECURSIVE DepthAt(_, _)
\* the nesting depth after the first i characters of t
DepthAt(t, i) ==
    IF i = 0 THEN 0
    ELSE DepthAt(t, i - 1) + (IF t[i] = "(" THEN 1 ELSE IF t[i] = ")" THEN -1 ELSE 0)

\* every ")" closes an earlier "(" and every "(" is closed
Balanced(t) == DepthAt(t, Len(t)) = 0 /\ \A i \in 0..Len(t) : DepthAt(t, i) >= 0

\* the first and the last character of t are a matching pair: the "(" at the
\* first position is closed by the ")" at the last one
OuterPair(t) ==
    /\ Len(t) >= 2
    /\ t[1] = "("
    /\ t[Len(t)] = ")"
    /\ DepthAt(t, Len(t)) = 0
    /\ \A i \in 1..(Len(t) - 1) : DepthAt(t, i) >= 1

\* C16: _strip_outer_parens removes the first and the last character only when
\* they are a matching parenthesis pair, so the result for a parenthesis-balanced
\* text is parenthesis-balanced.
C16_StripsMatchingPairOnly ==
    pc = "stripped" =>
        /\ cls # Strip(actual) => OuterPair(Strip(actual))
        /\ Balanced(actual) => Balanced(cls)

\* C17: for a net that lacks a driver or lacks a sink, whatever roles its endpoints
\* have, the edge loop adds the chain over the distinct (node, pin) endpoints in
\* the order in which the endpoints were aggregated into the net.
C17_ChainInAggregationOrder ==
    [][ (pc = "edges" /\ netIdx < Len(nets) /\ (CurDrivers = <<>> \/ CurSinks = <<>>)) =>
            LET net == nets[netIdx + 1]
                n   == Cardinality(FirstOcc(net))
            IN  /\ Len(edges') = Len(edges) + n - 1
                /\ \A i \in 1..(n - 1) :
                     LET e == edges'[Len(edges) + i] IN
                       /\ <<e.source, e.src_pin>> = EpKey(net, Kth(FirstOcc(net), i))
                       /\ <<e.target, e.dst_pin>> = EpKey(net, Kth(FirstOcc(net), i + 1)) ]_vars

\* the characters of names in ascending code order
CharOrder == Digits \o UpperCase \o <<"_">> \o LowerCase

Ord(c) == CHOOSE i \in DOMAIN CharOrder : CharOrder[i] = c

RECURSIVE NameLeq(_, _)
\* s <= t for two names
NameLeq(s, t) ==
    IF s = <<>> THEN TRUE
    ELSE IF t = <<>> THEN FALSE
    ELSE IF s[1] = t[1] THEN NameLeq(Tail(s), Tail(t))
    ELSE Ord(s[1]) < Ord(t[1])

Ascending(l) == \A i \in DOMAIN l : \A j \in DOMAIN l : i < j => NameLeq(l[i], l[j])

\* C18: the inputs list and the outputs list of every instance node hold the
\* formal names in ascending name order, whatever the order of the port map.
C18_PinListsSorted ==
    pc = "done" =>
      \A i \in DOMAIN nodes :
        nodes[i].kind = "instance" =>
          Ascending(nodes[i].inputs) /\ Ascending(nodes[i].outputs)

\* the role the table gives the pin of a port-map item, through the target of the
\* item's own instance
TableRole(it) ==
    LET ent == TargetOf(ItemInst(it))
        fp  == ItemFormal(it)
    IN  IF ent = None \/ ent = <<>> THEN "unknown"
        ELSE IF ent \notin DOMAIN entity_port_db THEN "unknown"
        ELSE IF fp \notin DOMAIN entity_port_db[ent] THEN "unknown"
        ELSE IF Lower(entity_port_db[ent][fp]) \in {S_out, S_buffer} THEN "driver"
        ELSE IF Lower(entity_port_db[ent][fp]) = S_in THEN "sink"
        ELSE "unknown"

\* every endpoint a port-map item contributed has the role the table gives the item
RolesFollowTable ==
    \A it \in Items : \A n \in DOMAIN nets : \A e \in DOMAIN nets[n].eps :
        nets[n].eps[e].ep = InstEp(ItemInst(it).label, ItemFormal(it)) =>
            Role(fi, entity_port_db, nets[n], nets[n].eps[e]).role = TableRole(it)

\* C19 as stated: an instance pin is unknown when the instance's target is missing
\* or absent from the table, or the formal is absent from the target's entry, or
\* its direction is not in, out or buffer; it is a driver for out and buffer and a
\* sink for in, compared case-insensitively.
C19_PinRoles ==
    pc = "done" => RolesFollowTable

\* C19 amended: the same, in units whose instance labels are pairwise distinct.
C19_PinRolesForDistinctLabels ==
    (pc = "done" /\ LabelsDistinct) => RolesFollowTable

\* a returned graph of a unit with two instances of different labels, one without
\* a target, the other with a known target and pins of table direction IN, in and
\* out and a formal the table does not list, each with the role the table gives
C19_Witness ==
    /\ pc = "done"
    /\ LabelsDistinct
    /\ RolesFollowTable
    /\ \E it \in Items : TargetOf(ItemInst(it)) = <<>> /\ NetsOfItem(it) # {}
    /\ \E it \in Items : ItemFormal(it) = F_c /\ TableRole(it) = "unknown"
                          /\ TargetOf(ItemInst(it)) = N_e /\ NetsOfItem(it) # {}
    /\ \E it \in Items : ItemFormal(it) = F_b /\ TableRole(it) = "sink" /\ NetsOfItem(it) # {}
    /\ \E it \in Items : ItemFormal(it) = F_y /\ TableRole(it) = "driver" /\ NetsOfItem(it) # {}

\* the associations of the list that name a formal other than others
NamedAssocs ==
    {i \in DOMAIN cls : /\ cls[i].formal # None
                         /\ Lower(Strip(cls[i].formal)) # <<"o","t","h","e","r","s">>}

\* the actual of the last association of the list for the formal F
LastActual(F) ==
    LET idx == {i \in NamedAssocs : Strip(cls[i].formal) = F}
    IN  Strip(cls[CHOOSE i \in idx : \A j \in idx : j <= i].actual)

\* C20: for an association list, the port map _parse_portmap returns has exactly
\* one binding for every formal of the list, with the actual of the last
\* association for that formal, also when the formal occurs more than once;
\* build_wiring then has one endpoint for the formal, that of the last binding
\* (none when the last actual is open), and none for the earlier ones.
C20_LastBindingWins ==
    pc # "parse" =>
      \A i \in NamedAssocs :
        LET F  == Strip(cls[i].formal)
            pm == fi.instances[1].port_map
        IN  /\ Cardinality({j \in DOMAIN pm : pm[j].formal = F}) = 1
            /\ \A j \in DOMAIN pm : pm[j].formal = F => pm[j].actual = LastActual(F)
            /\ pc = "done" =>
                 /\ EndpointCount(N_u, F) = IF IsOpenActual(LastActual(F)) THEN 0 ELSE 1
                 /\ \A n \in DOMAIN nets : \A e \in DOMAIN nets[n].eps :
                      nets[n].eps[e].ep = InstEp(N_u, F) =>
                        nets[n].eps[e].label = StripOuterParens(LastActual(F))

\* the list binds a to d(3) and later to p: the parsed map binds a to p alone and
\* the returned graph has the pin u.a on the net of p and not on the net of d
C20_Witness ==
    /\ pc = "done"
    /\ \E i \in NamedAssocs : \E j \in NamedAssocs :
         /\ i < j
         /\ Strip(cls[i].formal) = F_a /\ Strip(cls[i].actual) = T_d3
         /\ Strip(cls[j].formal) = F_a /\ cls[j].actual = N_p
    /\ LastActual(F_a) = N_p
    /\ \E n \in DOMAIN nets : /\ nets[n].kind = "eport" /\ nets[n].base = N_p
                                /\ \E e \in DOMAIN nets[n].eps : nets[n].eps[e].ep = InstEp(N_u, F_a)
    /\ \A n \in DOMAIN nets : nets[n].base # N_d
    /\ \E k \in DOMAIN edges : edges[k].dst_pin = N_u \o <<".">> \o F_a

\* the label U of the instance node with id inst::U
InstLabel(id) == SubSeq(id, Len(P_inst) + 1, Len(id))

\* node id and pin belong to an instance pin: the id is inst::U, the pin is U.f
NamesInstancePin(id, pin) ==
    StartsWith(id, P_inst) /\ StartsWith(pin, InstLabel(id) \o <<".">>)

\* the formal f of the pin U.f of the node inst::U
PinFormal(id, pin) == SubSeq(pin, Len(InstLabel(id)) + 2, Len(pin))

\* the formal of the pin is in the inputs or the outputs of a node with that id
Listed(id, pin) ==
    \E i \in DOMAIN nodes :
        /\ nodes[i].id = id
        /\ nodes[i].kind = "instance"
        /\ PinFormal(id, pin) \in Range(nodes[i].inputs) \cup Range(nodes[i].outputs)

\* C21: in the returned graph, for every edge whose src_pin or dst_pin names an
\* instance pin U.f, the formal f is in the inputs list or the outputs list of the
\* node inst::U, and no formal is in both lists of an instance node.
C21_EdgePinsListed ==
    pc = "done" =>
      /\ \A k \in DOMAIN edges :
           /\ NamesInstancePin(edges[k].source, edges[k].src_pin) =>
                Listed(edges[k].source, edges[k].src_pin)
           /\ NamesInstancePin(edges[k].target, edges[k].dst_pin) =>
                Listed(edges[k].target, edges[k].dst_pin)
      /\ \A i \in DOMAIN nodes :
           nodes[i].kind = "instance" =>
             Range(nodes[i].inputs) \cap Range(nodes[i].outputs) = {}

\* C22: for every parenthesis-balanced text s, _classify_actual('(' + s + ')')
\* returns the same (kind, display label, base) as _classify_actual(s).
C22_WrapKeepsClass ==
    (pc = "compared" /\ Balanced(actual)) => cls.wrapped = cls.plain

\* both calls were made on a balanced text whose first and last characters are
\* parentheses but not a matching pair, and gave the same expr result
C22_Witness ==
    /\ pc = "compared"
    /\ Balanced(actual)
    /\ Len(actual) >= 2
    /\ actual[1] = "(" /\ actual[Len(actual)] = ")"
    /\ ~OuterPair(actual)
    /\ cls.plain.kind = "expr"
    /\ cls.wrapped = cls.plain

====
